---- MODULE Spec2Model ----
(***************************************************************************)
(* A model of sortify's Shuffler session (src/shuffler.py): the lazily     *)
(* cached frame (_df), embedding (_locations) and tour (_sort), and the    *)
(* accessors get_features, decompose, get_sort and get_charts (Spec).      *)
(* After it come the solver's distance callback (SpecDistance), the        *)
(* splitting of a track list into groups of 100 (SpecChunks), the Spotify  *)
(* client of src/spotify.py (SpecClient) and the playlist view of          *)
(* src/application.py (SpecApp); each specification holds the state of     *)
(* the others fixed.                                                       *)
(*                                                                         *)
(* The libraries the session calls are modelled by what they do at the     *)
(* call site:                                                              *)
(*   - pandas: DataFrame.from_dict of an empty list has no columns, and    *)
(*     set_index / column selection raise KeyError on a missing column;    *)
(*   - sklearn MDS.fit_transform validates its input (a non-finite value   *)
(*     raises ValueError) and otherwise returns one 2-d point per row;     *)
(*     its random initialisation makes the points a nondeterministic       *)
(*     choice, drawn anew on every invocation;                             *)
(*   - ortools SolveWithParameters returns either no assignment or an      *)
(*     assignment whose NextVar chain is a route from the depot through    *)
(*     every node to the end index;                                        *)
(*   - numpy: indexing [:, 0] on an array that is not 2-d raises           *)
(*     IndexError.                                                         *)
(* Python's None is the empty tuple and a value v is the 1-tuple <<v>>.    *)
(* Python indices are 0-based; sequences here are 1-based, so the element  *)
(* at Python index i is seq[i + 1].                                        *)
(***************************************************************************)
EXTENDS Integers, Sequences, FiniteSets, TLC

\* Bounds of the model.
MaxN == 3
MaxCalls == 3

None == << >>
Some(v) == << v >>
IsNone(o) == Len(o) = 0
Val(o) == o[1]

\* Exceptions an accessor can end with; NoExc is a normal return.
NoExc == "none"
KeyError == "KeyError"
ValueError == "ValueError"
IndexError == "IndexError"

\* The outcome of a call: the session after it, the exception raised (or
\* NoExc) and the value returned.
Return(m, v) == [m |-> m, exc |-> NoExc, ret |-> v]
Raise(m, e) == [m |-> m, exc |-> e, ret |-> None]

\* ---------------------------------------------------------------- inputs

\* Display names of tracks.
Names == <<"a", "b", "c", "d", "e">>
\* A feature record's values for the ten feature columns, collapsed to one
\* representative value: a finite number or NaN.
NaN == "NaN"
Finite == "0.5"
\* 2-d coordinates an embedding can place an item at.
Points == {<<0, 0>>, <<1, 1>>}

f_cols == {"danceability", "energy", "key", "loudness", "speechiness",
           "acousticness", "instrumentalness", "liveness", "valence", "tempo"}

\* The lists of n Track objects (only .name is read) a session is built
\* over: the names taken in turn.
TrackLists(n) ==
    {[i \in 1..n |-> [name |-> Names[((i - 1) % Len(Names)) + 1]]]}

\* The lists of n audio-feature records, matched to the tracks by position:
\* every record finite, or one record holding a NaN.
FeatureLists(n) ==
    {[i \in 1..n |-> [id |-> i, vals |-> Finite]]}
    \cup {[i \in 1..n |-> [id |-> i, vals |-> IF i = k THEN NaN ELSE Finite]] :
            k \in 1..n}

IsFinite(v) == v # NaN
HasNaN(features) == \E i \in 1..Len(features) : ~IsFinite(features[i].vals)

\* ------------------------------------------------------------- libraries

\* pd.DataFrame.from_dict(list of records): one row per record, the union of
\* the records' keys as columns (none for an empty list).
DataFrame_from_dict(features) ==
    [columns |-> IF Len(features) = 0 THEN {} ELSE {"id"} \cup f_cols,
     rows |-> features]

\* sklearn.manifold.MDS.fit_transform(X) with result E: input validation
\* rejects an empty or non-finite matrix.
MDS_fit_transform(X, E) ==
    IF Len(X) = 0 \/ \E i \in 1..Len(X) : ~IsFinite(X[i])
    THEN [exc |-> ValueError, ret |-> None]
    ELSE [exc |-> NoExc, ret |-> Some(E)]

\* The embeddings fit_transform can return for n rows.
Embeddings(n) == [1..n -> Points]

\* The routes over nodes 0..n-1 from the depot: sequences visiting every node
\* once, the depot first.
Routes(n, start) ==
    {p \in [1..n -> 0..(n - 1)] :
        /\ n > 0 => p[1] = start
        /\ \A i, j \in 1..n : i # j => p[i] # p[j]}

\* The assignment's NextVar values for a route: each node's successor, the
\* last node's being the end index n.
NextVarOf(p, n) ==
    [node \in 0..(n - 1) |->
        LET k == CHOOSE i \in 1..n : p[i] = node
        IN IF k = n THEN n ELSE p[k + 1]]

\* What SolveWithParameters can return for tsp_size nodes: no assignment, or
\* the assignment of some route.
Assignments(tsp_size, start) ==
    {None} \cup {Some(NextVarOf(p, tsp_size)) : p \in Routes(tsp_size, start)}

\* ---------------------------------------------------------------- session

\* The depot: the route's starting node.
depot == 0

TypeError == "TypeError"

\* Shuffler.__init__: the session as constructed, every cache None.  Beside
\* the object's fields the record counts the embedder and solver invocations
\* and the list objects allocated, keeps the locations handed to the solver,
\* and notes a read of a cache field that was still None.
Shuffler(tracks, features) ==
    [_tracks |-> tracks, _features |-> features,
     _df |-> None, _sort |-> None, _locations |-> None,
     embedCalls |-> 0, solveCalls |-> 0, allocs |-> 0,
     solverArg |-> None, readNone |-> FALSE]

\* _build_frame after from_dict returned df: the frame is stored in _df, then
\* set_index looks up the 'id' column.
_build_frame_store(m, df) ==
    IF "id" \notin df.columns
    THEN Raise([m EXCEPT !._df = Some(df)], KeyError)
    ELSE Return([m EXCEPT !._df = Some(df)], df)

\* Shuffler._build_frame
_build_frame(m) == _build_frame_store(m, DataFrame_from_dict(m._features))

\* get_features' return statement, r being the outcome of obtaining the
\* frame: self._df[f_cols].values.
select_f_cols(r) ==
    IF r.exc # NoExc
    THEN r
    ELSE IF ~(f_cols \subseteq r.ret.columns)
    THEN Raise(r.m, KeyError)
    ELSE Return(r.m, [i \in 1..Len(r.ret.rows) |-> r.ret.rows[i].vals])

\* Shuffler.get_features: builds the frame when it is not cached, then
\* selects the feature columns.
get_features(m) ==
    select_f_cols(IF IsNone(m._df)
                  THEN _build_frame(m)
                  ELSE Return(m, Val(m._df)))

\* self._locations = <what fit_transform returned>, f being the embedder's
\* outcome.
store_locations(m, f) ==
    IF f.exc # NoExc
    THEN Raise(m, f.exc)
    ELSE Return([m EXCEPT !._locations = f.ret], Val(f.ret))

\* manifold.fit_transform(<features>), r being the outcome of get_features()
\* and E the embedder's result.
fit_transform(r, E) ==
    IF r.exc # NoExc
    THEN r
    ELSE store_locations([r.m EXCEPT !.embedCalls = @ + 1],
                         MDS_fit_transform(r.ret, E))

\* The body of decompose's "if self._locations is None".
decompose_compute(m, E) == fit_transform(get_features(m), E)

\* decompose with the cache test dropped: the embedding is recomputed.
decompose_uncached(m, E) == decompose_compute(m, E)

\* Shuffler.decompose
decompose(m, E) ==
    IF IsNone(m._locations)
    THEN decompose_compute(m, E)
    ELSE Return(m, Val(m._locations))

\* The "while not routing.IsEnd(node)" loop: the nodes from node on, following
\* the assignment's NextVar values up to the end index tsp_size.
RECURSIVE RouteFrom(_, _, _)
RouteFrom(next, node, tsp_size) ==
    IF node = tsp_size
    THEN << >>
    ELSE <<node>> \o RouteFrom(next, next[node], tsp_size)

\* return self._sort
return_sort(m) == Return(m, Val(m._sort))

\* "if assignment:", A being what the solver returned: the route's nodes are
\* appended to the list in _sort; without an assignment the list stays as
\* it is.
inspect_solution(m, A, tsp_size) ==
    IF ~IsNone(A)
    THEN return_sort([m EXCEPT !._sort[1].val =
                                  @ \o RouteFrom(Val(A), depot, tsp_size)])
    ELSE return_sort(m)

\* get_sort from "tsp_size = len(locations)" on, r being the outcome of
\* decompose(): a non-empty problem is handed to the solver.
solve(r, A) ==
    IF r.exc # NoExc
    THEN r
    ELSE IF Len(r.ret) > 0
    THEN inspect_solution([r.m EXCEPT !.solveCalls = @ + 1,
                                      !.solverArg = Some(r.ret)],
                          A, Len(r.ret))
    ELSE return_sort(r.m)

\* The body of get_sort's "if self._sort is None": a fresh empty list is
\* stored in _sort first, then the locations are obtained and the problem
\* solved.
get_sort_compute(m, E, A) ==
    solve(decompose([m EXCEPT !._sort = Some([ref |-> m.allocs + 1,
                                              val |-> << >>]),
                              !.allocs = @ + 1], E), A)

\* get_sort with the cache test dropped: the tour is recomputed.
get_sort_uncached(m, E, A) == get_sort_compute(m, E, A)

\* Shuffler.get_sort
get_sort(m, E, A) ==
    IF IsNone(m._sort)
    THEN get_sort_compute(m, E, A)
    ELSE return_sort(m)

\* ----------------------------------------------------------------- charts

\* The tools attached to both figures.
toolset(mobile) ==
    IF mobile
    THEN <<"HoverTool">>
    ELSE <<"HoverTool", "BoxZoomTool", "ZoomInTool", "ZoomOutTool", "ResetTool">>

\* old_names = [x.name for x in self._tracks]
old_names_of(tracks) == [i \in 1..Len(tracks) |-> tracks[i].name]

\* sorted_names with the tour ignored: the names in input order.
sorted_names_unsorted(old_names, sort) == old_names

\* sorted_names = [old_names[i] for i in self._sort]
sorted_names_of(old_names, sort) ==
    [k \in 1..Len(sort) |-> old_names[sort[k] + 1]]

\* sorted_locs = np.array([locs[i] for i in self._sort])
sorted_locs_of(locs, sort) ==
    [k \in 1..Len(sort) |-> locs[sort[k] + 1]]

\* ColumnDataSource(data=dict(x=locs[:, 0], y=locs[:, 1], name=names))
ColumnDataSource(locs, names) ==
    [x |-> [k \in 1..Len(locs) |-> locs[k][1]],
     y |-> [k \in 1..Len(locs) |-> locs[k][2]],
     name |-> names]

\* get_charts after its "if self._sort is None" test: the two point sets and
\* the tools.  Iterating a _sort that is None raises TypeError; an index of
\* the tour outside the names or the locations raises IndexError; so does
\* [:, 0] on an array that is not 2-d, which np.array(None) and np.array([])
\* are.
charts_body(m, mobile) ==
    IF IsNone(m._sort)
    THEN Raise([m EXCEPT !.readNone = TRUE], TypeError)
    ELSE
    LET sort == Val(m._sort).val
        old_names == old_names_of(m._tracks)
        m1 == [m EXCEPT !.readNone = @ \/ IsNone(m._locations)]
        locs == Val(m._locations)
    IN IF \E k \in 1..Len(sort) : sort[k] >= Len(old_names)
       THEN Raise(m, IndexError)
       ELSE IF IsNone(m._locations)
       THEN Raise(m1, IndexError)
       ELSE IF \E k \in 1..Len(sort) : sort[k] >= Len(locs)
       THEN Raise(m1, IndexError)
       ELSE IF Len(locs) = 0 \/ Len(sort) = 0
       THEN Raise(m1, IndexError)
       ELSE Return(m1,
               [original |-> ColumnDataSource(locs, old_names),
                sorted |-> ColumnDataSource(sorted_locs_of(locs, sort),
                                            sorted_names_of(old_names, sort)),
                tools |-> toolset(mobile)])

\* get_charts after its "if self._sort is None" test, r being the outcome of
\* that test's get_sort().
charts_after(r, mobile) ==
    IF r.exc # NoExc
    THEN Raise(r.m, r.exc)
    ELSE charts_body(r.m, mobile)

\* get_charts without its "if self._sort is None" test: the tour is read as
\* it is.
get_charts_no_sort(m, mobile, E, A) == charts_body(m, mobile)

\* The outcome c with the sorted points left in input order when mobile.
mobile_data(c, mobile) ==
    IF mobile /\ c.exc = NoExc
    THEN [c EXCEPT !.ret.sorted = c.ret.original]
    ELSE c

\* get_charts whose mobile branch also changes the sorted points.
get_charts_mobile_data(m, mobile, E, A) ==
    mobile_data(charts_after(IF IsNone(m._sort)
                             THEN get_sort(m, E, A)
                             ELSE Return(m, None), mobile), mobile)

\* Shuffler.get_charts
get_charts(m, mobile, E, A) ==
    charts_after(IF IsNone(m._sort)
                 THEN get_sort(m, E, A)
                 ELSE Return(m, None), mobile)

\* ------------------------------------------------------------------ state

VARIABLES _tracks, _features, _df, _sort, _locations,
          embedCalls, solveCalls, allocs, solverArg, readNone,
          calls, last, sortReturned, chartsReturned, raised, sortEmbeds

\* The session's fields, and the counters kept beside them.
fields == <<_tracks, _features, _df, _sort, _locations,
            embedCalls, solveCalls, allocs, solverArg, readNone>>
\* What the caller has seen: the number of calls made, the last call's
\* outcome, the values get_sort returned (in order) and get_charts returned,
\* the accessors that raised, and the number of embedder invocations made
\* under get_sort (called directly or by get_charts).
vars == <<fields, calls, last, sortReturned, chartsReturned, raised,
          sortEmbeds>>

\* The session object.
self ==
    [_tracks |-> _tracks, _features |-> _features,
     _df |-> _df, _sort |-> _sort, _locations |-> _locations,
     embedCalls |-> embedCalls, solveCalls |-> solveCalls, allocs |-> allocs,
     solverArg |-> solverArg, readNone |-> readNone]

N == Len(_features)

\* The distance callback: the embedding rows it was built from, its matrix,
\* and the last Distance(from_node, to_node) call with the value it returned
\* (None before the first call).
VARIABLES locations, matrix, asked

callbackVars == <<locations, matrix, asked>>

\* No distance callback is built.
NoCallback ==
    /\ locations = << >>
    /\ matrix = << >>
    /\ asked = None

\* The frame of get_tracks_for_add(all_tracks): its argument, its locals idx
\* and output, and the lists it has yielded so far, in order; and the
\* track_groups that the client's methods have built from the same list, each
\* with the method that built it.
VARIABLES all_tracks, idx, output, yielded, track_groups

chunkVars == <<all_tracks, idx, output, yielded, track_groups>>

\* No list of tracks is being split.
NoChunks ==
    /\ all_tracks = << >>
    /\ idx = 0
    /\ output = << >>
    /\ yielded = << >>
    /\ track_groups = {}

\* The Spotify client object and how it was built ("auth_code" or "token"),
\* the pages the web API serves for the user's playlists and for a
\* playlist's tracks, the clock, and the last call of a client method as its
\* caller saw it.
VARIABLES client, built, web, now, reply

clientVars == <<client, built, web, now, reply>>

\* No Spotify client is built.
NoClient ==
    /\ client = None
    /\ built = None
    /\ web = None
    /\ now = 0
    /\ reply = None

\* The web application: the browser session's cookie, the user's playlists
\* at Spotify (the tracks of each), the playlists the application has
\* created (the track ids added to each, in order), the shuffled order last
\* shown for each playlist, and the last response.
VARIABLES session, library, added, shown, response

appVars == <<session, library, added, shown, response>>

\* No request reaches the web application.
NoApp ==
    /\ session = None
    /\ library = None
    /\ added = << >>
    /\ shown = None
    /\ response = None

\* The state outside the shuffling session.
others == <<callbackVars, chunkVars, clientVars, appVars>>

\* Nothing but the shuffling session exists.
NoOthers == NoCallback /\ NoChunks /\ NoClient /\ NoApp

\* What the embedder can return for the session's N rows, and what the solver
\* can return for its N nodes (tabulated once per number of items).
EmbeddingsFor == [n \in 0..MaxN |-> Embeddings(n)]
AssignmentsFor == [n \in 0..MaxN |-> Assignments(n, depot)]

\* The session starts as m.
Starts(m) ==
    /\ _tracks = m._tracks
    /\ _features = m._features
    /\ _df = m._df
    /\ _sort = m._sort
    /\ _locations = m._locations
    /\ embedCalls = m.embedCalls
    /\ solveCalls = m.solveCalls
    /\ allocs = m.allocs
    /\ solverArg = m.solverArg
    /\ readNone = m.readNone

\* The session becomes m.
Becomes(m) ==
    /\ _tracks' = m._tracks
    /\ _features' = m._features
    /\ _df' = m._df
    /\ _sort' = m._sort
    /\ _locations' = m._locations
    /\ embedCalls' = m.embedCalls
    /\ solveCalls' = m.solveCalls
    /\ allocs' = m.allocs
    /\ solverArg' = m.solverArg
    /\ readNone' = m.readNone

\* The caller's view after accessor op ended with outcome r.
Seen(op, r) ==
    /\ calls' = calls + 1
    /\ last' = [op |-> op, exc |-> r.exc,
                val |-> IF r.exc = NoExc THEN Some(r.ret) ELSE None]
    /\ raised' = IF r.exc = NoExc THEN raised ELSE raised \cup {op}

\* A fresh session over n tracks and their n feature records.
Init ==
    /\ \E n \in 0..MaxN :
         \E tracks \in TrackLists(n), features \in FeatureLists(n) :
            Starts(Shuffler(tracks, features))
    /\ calls = 0
    /\ last = [op |-> "__init__", exc |-> NoExc, val |-> None]
    /\ sortReturned = << >>
    /\ chartsReturned = {}
    /\ raised = {}
    /\ sortEmbeds = 0
    /\ NoOthers

\* Accessor op ended with outcome r.
Outcome(op, r) ==
    /\ Becomes(r.m)
    /\ Seen(op, r)
    /\ sortReturned' = IF op = "get_sort" /\ r.exc = NoExc
                       THEN Append(sortReturned, r.ret)
                       ELSE sortReturned
    /\ sortEmbeds' = IF op \in {"get_sort", "get_charts"}
                     THEN sortEmbeds + (r.m.embedCalls - embedCalls)
                     ELSE sortEmbeds
    /\ UNCHANGED others

\* get_charts(mobile) ended with outcome r.
ChartsOutcome(mobile, r) ==
    /\ Outcome("get_charts", r)
    /\ chartsReturned' = IF r.exc = NoExc
                         THEN chartsReturned \cup
                                {[mobile |-> mobile, out |-> r.ret]}
                         ELSE chartsReturned

\* A call of get_features().
CallGetFeatures ==
    /\ calls < MaxCalls
    /\ Outcome("get_features", get_features(self))
    /\ UNCHANGED chartsReturned

\* A call of decompose(), with any of the outcomes it can have: E is what the
\* embedder returns if it is run.
CallDecompose ==
    /\ calls < MaxCalls
    /\ \E r \in {decompose(self, E) : E \in EmbeddingsFor[N]} :
         Outcome("decompose", r)
    /\ UNCHANGED chartsReturned

\* A call of get_sort(), with any of the outcomes it can have: A is what the
\* solver returns if it is run.
CallGetSort ==
    /\ calls < MaxCalls
    /\ \E r \in {get_sort(self, E, A) :
                   E \in EmbeddingsFor[N], A \in AssignmentsFor[N]} :
         Outcome("get_sort", r)
    /\ UNCHANGED chartsReturned

\* A call of get_charts(mobile).
CallGetCharts ==
    /\ calls < MaxCalls
    /\ \E mobile \in BOOLEAN :
         \E r \in {get_charts(self, mobile, E, A) :
                    E \in EmbeddingsFor[N], A \in AssignmentsFor[N]} :
            ChartsOutcome(mobile, r)

Next ==
    \/ CallGetFeatures
    \/ CallDecompose
    \/ CallGetSort
    \/ CallGetCharts

Spec == Init /\ [][Next]_vars

\* No shuffling session is in use: an empty one that is never called.
NoSession ==
    /\ Starts(Shuffler(<< >>, << >>))
    /\ calls = 0
    /\ last = [op |-> "__init__", exc |-> NoExc, val |-> None]
    /\ sortReturned = << >>
    /\ chartsReturned = {}
    /\ raised = {}
    /\ sortEmbeds = 0

\* ----------------------------------------------------------------- claims

\* seq holds each of 0..n-1 exactly once.
IsPermutation(seq, n) ==
    /\ Len(seq) = n
    /\ \A v \in 0..(n - 1) : \E k \in 1..n : seq[k] = v

\* The last call was op and returned normally.
Returned(op) == last.op = op /\ last.exc = NoExc

\* The tour the last get_sort() returned.
LastTour == Val(last.val).val

\* C1: for every valid input of N items (every feature value finite), the
\* sequence get_sort() returns is a permutation of 0..N-1, whatever the solver
\* returned.
C1_SortIsPermutation ==
    (~HasNaN(_features) /\ Returned("get_sort")) => IsPermutation(LastTour, N)

\* C2: in a session with N >= 1 items the tour get_sort() returns starts at
\* the depot, and for N = 1 it is exactly <<depot>>.
C2_TourStartsAtDepot ==
    (N >= 1 /\ Returned("get_sort")) =>
        /\ Len(LastTour) >= 1
        /\ LastTour[1] = depot
        /\ N = 1 => LastTour = <<depot>>

\* C3: all values get_sort() returns in a session are the same list object
\* with the same content, and the solver and (under get_sort) the embedder are
\* each invoked at most once.
C3_SortIdempotent ==
    /\ \A i, j \in 1..Len(sortReturned) : sortReturned[i] = sortReturned[j]
    /\ solveCalls <= 1
    /\ sortEmbeds <= 1

\* get_sort() has returned twice, a tour of all the items.
C3_Witness ==
    /\ Len(sortReturned) >= 2
    /\ N = MaxN
    /\ Len(sortReturned[2].val) = N

\* The session as get_sort() alone leaves a fresh session over the same
\* inputs, the embedder returning E and the solver A.
SortAlone(E, A) == get_sort(Shuffler(_tracks, _features), E, A).m

\* The cached frame, embedding and tour of session m, and the locations its
\* tour was solved over.
Cached(m) == <<m._df, m._locations, m._sort, m.solverArg>>

\* get_charts() on a session whose tour is not cached reads neither the tour
\* nor the embedding while it is None, r being the call's outcome.
DependenciesMet(r) ==
    /\ ~r.m.readNone
    /\ r.exc = NoExc => ~IsNone(r.m._sort) /\ ~IsNone(r.m._locations)

\* C4: after any sequence of decompose(), get_sort() and get_charts() calls
\* the cached embedding and tour are ones get_sort() alone yields on a fresh
\* session (the tour solved over the cached embedding), and get_charts()
\* called before the tour is cached has its dependencies computed before it
\* reads them.
C4_OrderIndependent ==
    /\ ~IsNone(_sort) =>
          \E E \in EmbeddingsFor[N], A \in AssignmentsFor[N] :
             Cached(SortAlone(E, A)) = Cached(self)
    /\ ~IsNone(_locations) =>
          \E E \in EmbeddingsFor[N] : SortAlone(E, None)._locations = _locations
    /\ IsNone(_sort) =>
          \A mobile \in BOOLEAN, E \in EmbeddingsFor[N],
             A \in AssignmentsFor[N] :
             DependenciesMet(get_charts(self, mobile, E, A))

\* get_charts() was the first call on the session and returned, leaving the
\* embedding and a full tour cached.
C4_Witness ==
    /\ calls = 1
    /\ Returned("get_charts")
    /\ N = MaxN
    /\ ~IsNone(_locations)
    /\ Len(Val(_sort).val) = N

\* C5: once get_sort() has raised, the tour cache holds nothing and no
\* get_sort() call has returned a tour.
C5_NoPartialCache ==
    "get_sort" \in raised => IsNone(_sort) /\ Len(sortReturned) = 0

\* The error the specification names for malformed feature data.
DataError == "DataError"

\* C6: with a NaN in a feature record, the embedder and the solver are never
\* invoked, nothing is cached for the embedding or the tour, and decompose(),
\* get_sort() and get_charts() end with a DataError.
C6_NaNRejectedBeforeEmbedding ==
    HasNaN(_features) =>
        /\ embedCalls = 0
        /\ solveCalls = 0
        /\ IsNone(_locations)
        /\ IsNone(_sort)
        /\ last.op \in {"decompose", "get_sort", "get_charts"} =>
              last.exc = DataError

\* C7: for an empty item list get_sort() returns an empty sequence and
\* get_charts() returns two empty point sets, neither raising.
C7_EmptyListIsEmpty ==
    N = 0 =>
        /\ last.op = "get_sort" => last.exc = NoExc /\ LastTour = << >>
        /\ last.op = "get_charts" =>
              /\ last.exc = NoExc
              /\ Len(Val(last.val).original.name) = 0
              /\ Len(Val(last.val).sorted.name) = 0

\* out's sorted point set is its original point set reordered by tour, and
\* its original point set is names and locs in input order.
SortedByTour(out, names, locs, tour) ==
    /\ out.original.name = names
    /\ Len(out.original.x) = Len(locs) /\ Len(out.original.y) = Len(locs)
    /\ \A i \in 1..Len(locs) :
          out.original.x[i] = locs[i][1] /\ out.original.y[i] = locs[i][2]
    /\ Len(out.sorted.name) = Len(tour)
    /\ Len(out.sorted.x) = Len(tour) /\ Len(out.sorted.y) = Len(tour)
    /\ \A k \in 1..Len(tour) :
          /\ out.sorted.name[k] = out.original.name[tour[k] + 1]
          /\ out.sorted.x[k] = out.original.x[tour[k] + 1]
          /\ out.sorted.y[k] = out.original.y[tour[k] + 1]

\* C8: in everything get_charts() returned, the sorted point set is the
\* original one reordered by the cached tour (name and coordinates at
\* position k are those of item tour[k]), the original one keeps the input
\* order, and reordering the item names by a tour get_sort() returned gives
\* the sorted labels.
C8_SortedIsReordered ==
    \A c \in chartsReturned :
        /\ SortedByTour(c.out, old_names_of(_tracks), Val(_locations),
                        Val(_sort).val)
        /\ \A i \in 1..Len(sortReturned) :
              c.out.sorted.name =
                 [k \in 1..Len(sortReturned[i].val) |->
                     _tracks[sortReturned[i].val[k] + 1].name]

\* get_charts() returned for differently named items at different places and
\* a tour that is not the input order, which get_sort() returned too.
C8_Witness ==
    /\ \E c \in chartsReturned :
          /\ c.out.sorted.name # c.out.original.name
          /\ c.out.sorted.x # c.out.original.x
    /\ Len(sortReturned) >= 1

\* The point sets of a get_charts() outcome (none when it raised).
PointSets(r) ==
    IF r.exc = NoExc THEN <<r.ret.original, r.ret.sorted>> ELSE << >>

\* The outcomes of get_charts(mobile=True) and get_charts(mobile=False) agree
\* on everything but the tools, and each has its own toolset.
SameButTools(rt, rf) ==
    /\ rt.m = rf.m
    /\ rt.exc = rf.exc
    /\ PointSets(rt) = PointSets(rf)
    /\ rt.exc = NoExc =>
          rt.ret.tools = toolset(TRUE) /\ rf.ret.tools = toolset(FALSE)

\* C9: whatever get_charts() returned for mobile=True and for mobile=False
\* has the same original and sorted point sets; and from any state the two
\* calls leave the same session (tour and embedding included), end the same
\* way and differ only in the tools.
C9_MobileChangesOnlyTools ==
    /\ \A c1, c2 \in chartsReturned :
          /\ c1.out.original = c2.out.original
          /\ c1.out.sorted = c2.out.sorted
          /\ c1.out.tools = toolset(c1.mobile)
    /\ \A both \in {<<get_charts(self, TRUE, E, A),
                        get_charts(self, FALSE, E, A)>> :
                         E \in EmbeddingsFor[N], A \in AssignmentsFor[N]} :
          SameButTools(both[1], both[2])

\* get_charts() has returned both for mobile=True and for mobile=False, with
\* a tour that is not the input order.
C9_Witness ==
    /\ \E c1, c2 \in chartsReturned :
          /\ c1.mobile /\ ~c2.mobile
          /\ c1.out.sorted # c1.out.original
    /\ toolset(TRUE) # toolset(FALSE)

\* C10: over accessor calls each of _df, _locations and _sort, once it holds
\* a value, keeps that value.
C10_CachesWriteOnce ==
    [][/\ ~IsNone(_df) => _df' = _df
       /\ ~IsNone(_locations) => _locations' = _locations
       /\ ~IsNone(_sort) => _sort' = _sort]_vars

\* All three caches hold values and accessors were called after the tour was
\* returned, the last of them decompose().
C10_Witness ==
    /\ ~IsNone(_df) /\ ~IsNone(_locations) /\ ~IsNone(_sort)
    /\ Len(sortReturned) >= 1
    /\ last.op = "decompose"
    /\ calls = MaxCalls

\* ------------------------------------------------------ distance callback

\* The longest list of embedding rows a callback is built from.
MaxLocs == 3

\* The coordinates an embedding row is drawn from.
Coords == {-2, 0, 1}
Rows == {<<x, y>> : x \in Coords, y \in Coords}

\* A non-negative number is kept exactly, as the integer it is the square
\* root of: sqrt(q) is the number whose square is q.
sqrt(q) == [squared |-> q]

\* The literal 0 that the matrix holds on its diagonal.
zero == sqrt(0)

\* int(x): x truncated toward zero; for x >= 0 the largest integer r with
\* r <= x, that is with r*r <= x*x.
int(x) ==
    CHOOSE r \in 0..x.squared :
        r * r <= x.squared /\ x.squared < (r + 1) * (r + 1)

\* round(x): the integer nearest to x >= 0.
round(x) ==
    CHOOSE r \in 0..(x.squared + 1) :
        /\ r = 0 \/ (2 * r - 1) * (2 * r - 1) <= 4 * x.squared
        /\ 4 * x.squared < (2 * r + 1) * (2 * r + 1)

\* distance(x1, y1, x2, y2): the Euclidean distance of two points.
distance(x1, y1, x2, y2) ==
    sqrt((x1 - x2) * (x1 - x2) + (y1 - y2) * (y1 - y2))

\* CreateDistanceCallback.__init__(locs): the matrix it builds, keyed by
\* from_node and to_node; column c of row k is locs[k + 1][c + 1].
CreateDistanceCallback(locs) ==
    [from_node \in 0..(Len(locs) - 1) |->
        [to_node \in 0..(Len(locs) - 1) |->
            IF from_node = to_node
            THEN zero
            ELSE distance(locs[from_node + 1][1], locs[from_node + 1][2],
                          locs[to_node + 1][1], locs[to_node + 1][2])]]

\* Distance(from_node, to_node) with the cost rounded to the nearest integer
\* instead of truncated.
Distance_rounded(mx, from_node, to_node) == round(mx[from_node][to_node])

\* Distance(from_node, to_node) of the callback whose matrix is mx.
Distance(mx, from_node, to_node) == int(mx[from_node][to_node])

\* A callback built over up to MaxLocs embedding rows.
InitDistance ==
    /\ \E n \in 0..MaxLocs :
         \E locs \in [1..n -> Rows] :
            /\ locations = locs
            /\ matrix = CreateDistanceCallback(locs)
    /\ asked = None
    /\ NoSession
    /\ NoChunks
    /\ NoClient
    /\ NoApp

\* The solver asks for the cost of the arc from from_node to to_node.
CallDistance ==
    /\ \E from_node, to_node \in 0..(Len(locations) - 1) :
          asked' = Some([from_node |-> from_node, to_node |-> to_node,
                         cost |-> Distance(matrix, from_node, to_node)])
    /\ UNCHANGED <<locations, matrix, vars, chunkVars, clientVars, appVars>>

NextDistance == CallDistance

SpecDistance == InitDistance /\ [][NextDistance]_<<vars, others>>

\* The square of the Euclidean distance between embedding rows i and j.
SquaredDistance(i, j) ==
    (locations[i + 1][1] - locations[j + 1][1])
        * (locations[i + 1][1] - locations[j + 1][1])
    + (locations[i + 1][2] - locations[j + 1][2])
        * (locations[i + 1][2] - locations[j + 1][2])

\* C11: the value d that Distance(i, j) returned is a non-negative integer,
\* is the Euclidean distance between embedding rows i and j truncated toward
\* zero (d <= distance < d + 1), equals Distance(j, i), and is 0 when i = j.
C11_DistanceTruncatedSymmetric ==
    ~IsNone(asked) =>
        LET i == Val(asked).from_node
            j == Val(asked).to_node
            d == Val(asked).cost
        IN  /\ d \in Nat
            /\ d * d <= SquaredDistance(i, j)
            /\ SquaredDistance(i, j) < (d + 1) * (d + 1)
            /\ d = Distance(matrix, j, i)
            /\ i = j => d = 0

\* Distance was asked for two different nodes whose distance is not an
\* integer, so that the truncation dropped a fraction.
C11_Witness ==
    /\ ~IsNone(asked)
    /\ Val(asked).from_node # Val(asked).to_node
    /\ Val(asked).cost > 0
    /\ Val(asked).cost * Val(asked).cost
         < SquaredDistance(Val(asked).from_node, Val(asked).to_node)

\* ------------------------------------------------------- groups of tracks

\* The longest list of tracks that is split.
MaxTracks == 201

\* The most tracks get_tracks_for_add puts in one yielded list, and the most
\* the client puts in one request.
max_per_yield == 100
max_per_request == 100

\* A list of n tracks, each its own id.
TrackIds(n) == [k \in 1..n |-> k]

\* One turn of the while loop of get_tracks_for_add with a condition that
\* looks for the end of the list one index too late.
loop_body_late(tracks, i, out, ys) ==
    IF Len(Append(out, tracks[i + 1])) = max_per_yield \/ i = Len(tracks)
    THEN [idx |-> i + 1, output |-> << >>,
          yielded |-> Append(ys, Append(out, tracks[i + 1]))]
    ELSE [idx |-> i + 1, output |-> Append(out, tracks[i + 1]),
          yielded |-> ys]

\* One turn of the while loop of get_tracks_for_add(tracks), entered with
\* idx = i < len(tracks), output = out and ys yielded so far: the locals and
\* the yielded lists after it.
loop_body(tracks, i, out, ys) ==
    IF Len(Append(out, tracks[i + 1])) = max_per_yield
         \/ i = Len(tracks) - 1
    THEN [idx |-> i + 1, output |-> << >>,
          yielded |-> Append(ys, Append(out, tracks[i + 1]))]
    ELSE [idx |-> i + 1, output |-> Append(out, tracks[i + 1]),
          yielded |-> ys]

\* range(0, stop, step), as a sequence.
range(stop, step) ==
    [k \in 1..((stop + step - 1) \div step) |-> (k - 1) * step]

\* tracks[i:j]: the elements at indices i..j-1 that exist.
slice(tracks, i, j) ==
    SubSeq(tracks, i + 1, IF j < Len(tracks) THEN j ELSE Len(tracks))

\* [tracks[i:i + 100] for i in range(0, len(tracks), 100)]
slice_groups(tracks) ==
    [k \in 1..Len(range(Len(tracks), max_per_request)) |->
        slice(tracks, range(Len(tracks), max_per_request)[k],
              range(Len(tracks), max_per_request)[k] + max_per_request)]

\* get_tracks_for_add is called with a list of up to MaxTracks tracks.
InitChunks ==
    /\ \E n \in 0..MaxTracks : all_tracks = TrackIds(n)
    /\ idx = 0
    /\ output = << >>
    /\ yielded = << >>
    /\ track_groups = {}
    /\ NoSession
    /\ NoCallback
    /\ NoClient
    /\ NoApp

\* The generator is resumed into one more turn of its loop.
Iterate ==
    /\ idx < Len(all_tracks)
    /\ idx' = loop_body(all_tracks, idx, output, yielded).idx
    /\ output' = loop_body(all_tracks, idx, output, yielded).output
    /\ yielded' = loop_body(all_tracks, idx, output, yielded).yielded
    /\ UNCHANGED <<all_tracks, track_groups, vars, callbackVars, clientVars, appVars>>

\* track_groups once method has built its groups from the same list.
Grouped(method) ==
    track_groups \cup {[method |-> method,
                        groups |-> slice_groups(all_tracks)]}

\* add_tracks_to_playlist builds its track_groups.
GroupsForAdd ==
    /\ track_groups' = Grouped("add_tracks_to_playlist")
    /\ UNCHANGED <<all_tracks, idx, output, yielded, vars, callbackVars,
                   clientVars, appVars>>

\* get_audio_features builds its track_groups.
GroupsForFeatures ==
    /\ track_groups' = Grouped("get_audio_features")
    /\ UNCHANGED <<all_tracks, idx, output, yielded, vars, callbackVars,
                   clientVars, appVars>>

NextChunks ==
    \/ Iterate
    \/ GroupsForAdd
    \/ GroupsForFeatures

SpecChunks == InitChunks /\ [][NextChunks]_<<vars, others>>

\* The lists of seqs, one after the other.
RECURSIVE Concat(_)
Concat(seqs) ==
    IF seqs = << >> THEN << >> ELSE Head(seqs) \o Concat(Tail(seqs))

\* The generator has run to its end.
Exhausted == idx = Len(all_tracks)

\* What C12 says of every state of the generator.
C12_State ==
    /\ idx <= Len(all_tracks)
    /\ Exhausted \/ ENABLED Iterate
    /\ Concat(yielded) \o output = SubSeq(all_tracks, 1, idx)
    /\ \A k \in 1..Len(yielded) :
          /\ Len(yielded[k]) >= 1
          /\ Len(yielded[k]) <= 100
          /\ (k < Len(yielded) \/ ~Exhausted) => Len(yielded[k]) = 100
    /\ Exhausted =>
          /\ Concat(yielded) = all_tracks
          /\ all_tracks = << >> => yielded = << >>
          /\ \A g \in track_groups : g.groups = yielded

\* C12: get_tracks_for_add(tracks) ends (every turn of its loop brings idx
\* nearer to len(tracks), and it can take a turn until idx is there); the
\* lists it yields are, one after the other, tracks; each has 1..100
\* elements and each but possibly the last has 100; an empty list yields
\* nothing; and the groups that add_tracks_to_playlist and get_audio_features
\* slice from the same list are the lists yielded.
C12_ChunksPartitionTracks ==
    /\ []C12_State
    /\ [][Len(all_tracks') - idx' < Len(all_tracks) - idx
            \/ UNCHANGED <<all_tracks, idx, output, yielded>>]_<<vars, others>>

\* The generator has run to its end over a list that needs two full lists
\* and a shorter last one, and both methods have built their groups.
C12_Witness ==
    /\ Exhausted
    /\ Len(yielded) = 3
    /\ Len(yielded[3]) < 100
    /\ {g.method : g \in track_groups}
         = {"add_tracks_to_playlist", "get_audio_features"}

\* ---------------------------------------------------------- Spotify client

\* The latest time of the clock, the most pages a pager has and the most
\* items a page has.
MaxTime == 3
MaxPages == 2
MaxItems == 2

AttributeError == "AttributeError"

\* The values of expires_in that the token endpoint answers with.
Lifetimes == {1, 2}

\* A Spotify object before __init__ runs: the class attributes; beside them
\* the number of tokens the token endpoint has issued to it and the trace of
\* the current call: the isLive() runs and the requests, in order.
Spotify ==
    [_access_token |-> None, _refresh_token |-> None, _token_type |-> None,
     _expires_on |-> None, _user |-> None, issued |-> 0, trace |-> << >>]

\* c after it did what (ran isLive or issued a request).
did(c, what) == [c EXCEPT !.trace = Append(@, what)]

\* _logon_or_refresh(payload) at time t, answered with expires_in = life.
_logon_or_refresh(c, t, life) ==
    [did(c, "POST token") EXCEPT
        !._access_token = Some(c.issued + 1),
        !._refresh_token = Some(c.issued + 1),
        !._token_type = Some("Bearer"),
        !._expires_on = Some(t + life),
        !.issued = c.issued + 1]

\* _logon(auth_code)
_logon(c, t, life) == _logon_or_refresh(c, t, life)

\* _refresh()
_refresh(c, t, life) == _logon_or_refresh(c, t, life)

\* Spotify(auth_code=..., token=...) with at least one of them given: the
\* token endpoint is asked only if no token is given, and a given token is
\* stored nowhere.
__init__(auth_code, token, t, life) ==
    IF IsNone(token) THEN _logon(Spotify, t, life) ELSE Spotify

\* isLive() at time t. Comparing None with a time raises TypeError; on the
\* branch of an expired token self._logger is read, which no Spotify object
\* has, so that _refresh() on the next line is not reached. The trace tells
\* that isLive() ran and, if it returned, what it returned.
isLive(c, t) ==
    IF IsNone(c._expires_on)
    THEN Raise(did(c, "isLive()"), TypeError)
    ELSE IF Val(c._expires_on) < t
         THEN Raise(did(c, "isLive()"), AttributeError)
         ELSE Return(did(did(c, "isLive()"), "isLive() = True"), TRUE)

\* The user the profile endpoint describes.
User == [id |-> "me"]

\* get_user() after isLive() ended with r.
get_user_live(r) ==
    IF r.exc # NoExc THEN r
    ELSE Return([did(r.m, "GET me") EXCEPT !._user = Some(User)], User)

\* get_user()
get_user(c, t) == get_user_live(isLive(c, t))

\* if self._user is None: self.get_user(), after isLive() ended with r.
ensure_user(r, t) ==
    IF r.exc # NoExc THEN r
    ELSE IF IsNone(r.m._user) THEN get_user(r.m, t) ELSE r

\* _create_playlist(x)
_create_playlist(x) == [id |-> Val(x.id)]

\* _create_track(x): Track's validator takes no id that is not a str.
_create_track(x) == IF IsNone(x.id) THEN None ELSE Some([id |-> Val(x.id)])

\* The while loop over the pager: page k has been read, items holds the
\* items gathered so far.
RECURSIVE follow(_, _, _, _)
follow(c, pages, k, items) ==
    IF IsNone(pages[k].next)
    THEN [c |-> c, items |-> items]
    ELSE follow(did(c, "GET next"), pages, Val(pages[k].next),
                items \o pages[Val(pages[k].next)].items)

\* The end of get_playlists(): c and the playlists gathered.
playlists_of(got) ==
    Return(got.c, [i \in 1..Len(got.items) |->
                      _create_playlist(got.items[i])])

\* get_playlists() from its first request on, after the user is known (r).
get_playlists_user(r, pages) ==
    IF r.exc # NoExc THEN r
    ELSE playlists_of(follow(did(r.m, "GET playlists"), pages, 1,
                             pages[1].items))

\* get_playlists()
get_playlists(c, t, pages) ==
    get_playlists_user(ensure_user(isLive(c, t), t), pages)

\* get_playlist(playlist_url), after isLive() ended with r.
get_playlist_live(r) ==
    IF r.exc # NoExc THEN r
    ELSE Return(did(r.m, "GET playlist"), _create_playlist([id |-> Some(1)]))

\* get_playlist(playlist_url)
get_playlist(c, t) == get_playlist_live(isLive(c, t))

\* The end of get_playlist_tracks(): c and the track_info gathered.
tracks_of(got) ==
    IF \E i \in 1..Len(got.items) : IsNone(_create_track(got.items[i]))
    THEN Raise(got.c, TypeError)
    ELSE Return(got.c, [i \in 1..Len(got.items) |->
                           Val(_create_track(got.items[i]))])

\* get_playlist_tracks(playlist_url), after isLive() ended with r.
get_playlist_tracks_live(r, pages) ==
    IF r.exc # NoExc THEN r
    ELSE tracks_of(follow(did(r.m, "GET tracks"), pages, 1, pages[1].items))

\* get_playlist_tracks(playlist_url)
get_playlist_tracks(c, t, pages) ==
    get_playlist_tracks_live(isLive(c, t), pages)

\* create_playlist(playlist_name) from its request on.
create_playlist_user(r) ==
    IF r.exc # NoExc THEN r
    ELSE Return(did(r.m, "POST playlists"), "new")

\* create_playlist(playlist_name)
create_playlist(c, t) == create_playlist_user(ensure_user(isLive(c, t), t))

\* c after one request, what, for each of n groups.
RECURSIVE each_group(_, _, _)
each_group(c, what, n) ==
    IF n = 0 THEN c ELSE each_group(did(c, what), what, n - 1)

\* add_tracks_to_playlist(playlist_id, tracks) from its requests on.
add_tracks_to_playlist_user(r, tracks) ==
    IF r.exc # NoExc THEN r
    ELSE Return(each_group(r.m, "POST tracks", Len(slice_groups(tracks))),
                None)

\* add_tracks_to_playlist(playlist_id, tracks)
add_tracks_to_playlist(c, t, tracks) ==
    add_tracks_to_playlist_user(ensure_user(isLive(c, t), t), tracks)

\* get_audio_features(tracks), after isLive() ended with r: the server
\* answers each group with one feature record per id.
get_audio_features_live(r, tracks) ==
    IF r.exc # NoExc THEN r
    ELSE Return(each_group(r.m, "GET audio-features",
                           Len(slice_groups(tracks))),
                Concat(slice_groups(tracks)))

\* get_audio_features(tracks)
get_audio_features(c, t, tracks) ==
    get_audio_features_live(isLive(c, t), tracks)

\* The sum of the first k of sizes.
RECURSIVE Before(_, _)
Before(sizes, k) == IF k = 0 THEN 0 ELSE sizes[k] + Before(sizes, k - 1)

\* The pages of a pager whose page k has sizes[k] items: each item has its
\* own id but item number nullAt, if any, which has a null id (a local file);
\* each page but the last links to the next.
PageChain(sizes, nullAt) ==
    [k \in 1..Len(sizes) |->
        [items |-> [i \in 1..sizes[k] |->
                      [id |-> IF Before(sizes, k - 1) + i = nullAt
                              THEN None
                              ELSE Some(Before(sizes, k - 1) + i)]],
         next |-> IF k < Len(sizes) THEN Some(k + 1) ELSE None]]

\* The page sizes of the finite pagers.
Shapes == UNION {[1..p -> 0..MaxItems] : p \in 1..MaxPages}

\* A client built at time 0, from an auth code or from an existing token.
InitClient ==
    /\ \E how \in {"auth_code", "token"}, life \in Lifetimes :
         /\ built = Some(how)
         /\ client = Some(IF how = "auth_code"
                          THEN __init__(Some("code"), None, 0, life)
                          ELSE __init__(None, Some("token"), 0, life))
    /\ \E ps \in Shapes, ts \in Shapes :
         \E nullAt \in 0..Before(ts, Len(ts)) :
            web = Some([playlists |-> PageChain(ps, 0),
                        tracks |-> PageChain(ts, nullAt)])
    /\ now = 0
    /\ reply = None
    /\ NoSession
    /\ NoCallback
    /\ NoChunks
    /\ NoApp

\* The client as a call finds it: the trace of the call is empty.
me == [Val(client) EXCEPT !.trace = << >>]

\* Method op, called now, ended with outcome r.
Replied(op, r) ==
    /\ client' = Some(r.m)
    /\ reply' = Some([op |-> op, exc |-> r.exc,
                      ret |-> IF r.exc = NoExc THEN Some(r.ret) ELSE None,
                      trace |-> r.m.trace, was |-> me, at |-> now])
    /\ UNCHANGED <<built, web, now, vars, callbackVars, chunkVars, appVars>>

\* A call of get_user().
CallGetUser ==
    /\ ~IsNone(client)
    /\ Replied("get_user", get_user(me, now))

\* A call of get_playlists().
CallGetPlaylists ==
    /\ ~IsNone(client)
    /\ Replied("get_playlists", get_playlists(me, now, Val(web).playlists))

\* A call of get_playlist(playlist_url).
CallGetPlaylist ==
    /\ ~IsNone(client)
    /\ Replied("get_playlist", get_playlist(me, now))

\* A call of get_playlist_tracks(playlist_url).
CallGetPlaylistTracks ==
    /\ ~IsNone(client)
    /\ Replied("get_playlist_tracks",
               get_playlist_tracks(me, now, Val(web).tracks))

\* A call of create_playlist(playlist_name).
CallCreatePlaylist ==
    /\ ~IsNone(client)
    /\ Replied("create_playlist", create_playlist(me, now))

\* A call of add_tracks_to_playlist(playlist_id, tracks).
CallAddTracks ==
    /\ ~IsNone(client)
    /\ \E n \in 0..MaxItems :
          Replied("add_tracks_to_playlist",
                  add_tracks_to_playlist(me, now, TrackIds(n)))

\* A call of get_audio_features(tracks).
CallGetAudioFeatures ==
    /\ ~IsNone(client)
    /\ \E n \in 0..MaxItems :
          Replied("get_audio_features",
                  get_audio_features(me, now, TrackIds(n)))

\* Time passes.
Tick ==
    /\ now < MaxTime
    /\ now' = now + 1
    /\ UNCHANGED <<client, built, web, reply, vars, callbackVars, chunkVars, appVars>>

NextClient ==
    \/ CallGetUser
    \/ CallGetPlaylists
    \/ CallGetPlaylist
    \/ CallGetPlaylistTracks
    \/ CallCreatePlaylist
    \/ CallAddTracks
    \/ CallGetAudioFeatures
    \/ Tick

SpecClient == InitClient /\ [][NextClient]_<<vars, others>>

\* The token fields of client c.
Tokens(c) ==
    <<c._access_token, c._refresh_token, c._token_type, c._expires_on>>

\* C13: every call of a client method starts by running isLive(), before any
\* request, and isLive() returns True: having replaced the access token and
\* the expiry time if the stored expiry time was in the past, and leaving
\* the token fields as they were otherwise; for a client built from an auth
\* code and for one built from a token.
C13_IsLiveBeforeRequests ==
    ~IsNone(reply) =>
        /\ Len(Val(reply).trace) >= 2
        /\ Val(reply).trace[1] = "isLive()"
        /\ Val(reply).trace[2] = "isLive() = True"
        /\ IF /\ ~IsNone(Val(reply).was._expires_on)
              /\ Val(Val(reply).was._expires_on) < Val(reply).at
           THEN /\ Val(client)._access_token # Val(reply).was._access_token
                /\ Val(client)._expires_on # Val(reply).was._expires_on
           ELSE Tokens(Val(client)) = Tokens(Val(reply).was)

\* The items of all pages, in page order and item order.
AllItems(pages) == Concat([k \in 1..Len(pages) |-> pages[k].items])

\* The last call returned one entry per item of pages, in order, and asked
\* for each page once.
PagedThrough(pages, first) ==
    /\ Val(reply).exc = NoExc
    /\ Len(Val(Val(reply).ret)) = Len(AllItems(pages))
    /\ \A i \in 1..Len(AllItems(pages)) :
          Some(Val(Val(reply).ret)[i].id) = AllItems(pages)[i].id
    /\ Len(SelectSeq(Val(reply).trace,
                     LAMBDA e : e \in {first, "GET next"})) = Len(pages)

\* C15: a call of get_playlists() or get_playlist_tracks() over a finite
\* chain of pages returns one entry per item of every page, in page order
\* and item order, and has asked for each page once (so for a single page
\* only the first request is made).
C15_PagersReturnEveryItem ==
    ~IsNone(reply) =>
        /\ Val(reply).op = "get_playlists"
              => PagedThrough(Val(web).playlists, "GET playlists")
        /\ Val(reply).op = "get_playlist_tracks"
              => PagedThrough(Val(web).tracks, "GET tracks")

\* The calls of the two pagers that return do return what C15 says.
PagersRightWhenTheyReturn ==
    (~IsNone(reply) /\ Val(reply).exc = NoExc) => C15_PagersReturnEveryItem

\* ------------------------------------------------------------ application

\* The most playlists the application creates.
MaxSaves == 2

KeyErrorShuffled == "KeyError: 'shuffled'"
BuildError == "BuildError"

\* The playlists the user looks at.
PlaylistIds == {"P", "Q"}

\* A playlist of n tracks as the tracks endpoint lists it: each track has its
\* own id but track number nullAt, if any, which has a null id.
Playlist(n, nullAt) ==
    [i \in 1..n |-> [name |-> Names[((i - 1) % Len(Names)) + 1],
                     id |-> IF i = nullAt THEN None ELSE Some(i)]]

\* track_names: the (name, id) tuples of the fetched track_info.
track_names_of(track_info) ==
    [i \in 1..Len(track_info) |-> <<track_info[i].name, track_info[i].id>>]

\* The features list smart_shuffle gathers, one request per id: for a null
\* id the endpoint answers with an error object, which has no feature value.
features_of(tracks) ==
    [i \in 1..Len(tracks) |->
        [id |-> i, vals |-> IF IsNone(tracks[i][2]) THEN NaN ELSE Finite]]

\* smart_shuffle's return statement, c being the outcome of get_charts():
\* Results(sort=tuple(sort), ...).
smart_shuffle_results(sort, c) ==
    IF c.exc # NoExc THEN c ELSE Return(c.m, sort)

\* smart_shuffle after get_sort() ended with r. The session's tracks are
\* (name, id) tuples, and get_charts() reads x.name of each of them.
smart_shuffle_sorted(r, E, A) ==
    IF r.exc # NoExc
    THEN r
    ELSE IF Len(r.m._tracks) > 0
    THEN Raise(r.m, AttributeError)
    ELSE smart_shuffle_results(r.ret.val, get_charts(r.m, FALSE, E, A))

\* smart_shuffle(tracks)
smart_shuffle(tracks, E, A) ==
    smart_shuffle_sorted(
        get_sort(Shuffler(tracks, features_of(tracks)), E, A), E, A)

\* The lists get_tracks_for_add(tracks) yields, from a turn of its loop on.
RECURSIVE get_tracks_for_add_from(_, _, _, _)
get_tracks_for_add_from(tracks, i, out, ys) ==
    IF i < Len(tracks)
    THEN get_tracks_for_add_from(tracks,
                                 loop_body(tracks, i, out, ys).idx,
                                 loop_body(tracks, i, out, ys).output,
                                 loop_body(tracks, i, out, ys).yielded)
    ELSE ys

\* get_tracks_for_add(tracks)
get_tracks_for_add(tracks) == get_tracks_for_add_from(tracks, 0, << >>, << >>)

\* all_tracks of view_playlist: the ids at the indices of shuffled that are
\* not None.
all_tracks_of(track_names, shuffled) ==
    SelectSeq([k \in 1..Len(shuffled) |-> track_names[shuffled[k] + 1][2]],
              LAMBDA id : ~IsNone(id))

\* The tracks of a playlist after add_tracks was called for each of groups.
add_each(groups) == Concat([k \in 1..Len(groups) |->
                              [j \in 1..Len(groups[k]) |-> Val(groups[k][j])]])

\* What a request leaves: the cookie, the created playlists, the orders
\* shown and the response.
Handled(s, ad, sh, resp) ==
    [session |-> s, added |-> ad, shown |-> sh, response |-> resp]

\* view_playlist from line 189 on (a GET, or a POST whose form is not
\* valid), sh being the outcome of smart_shuffle; saved tells whether the
\* cookie of a failed request is stored.
view_playlist_show(s, ad, shw, p, track_names, sh, saved) ==
    IF sh.exc # NoExc
    THEN Handled(IF saved THEN [s EXCEPT !.name = Some(p)] ELSE s, ad, shw,
                 [kind |-> "view", playlist |-> p, status |-> 500,
                  exc |-> sh.exc])
    ELSE Handled([s EXCEPT !.name = Some(p), !.shuffled = Some(sh.ret)],
                 ad, [shw EXCEPT ![p] = Some(sh.ret)],
                 [kind |-> "view", playlist |-> p, status |-> 200,
                  exc |-> NoExc])

\* view_playlist for a POST with "Shuffle" in the form: url_for names an
\* endpoint that does not exist.
view_playlist_shuffle(s, ad, shw, p) ==
    Handled(s, ad, shw, [kind |-> "shuffle", playlist |-> p, status |-> 500,
                         exc |-> BuildError])

\* view_playlist for a POST with a valid form: the new playlist is created
\* first (ad holds it already), then session["shuffled"] is read.
view_playlist_save(s, ad, shw, p, track_names) ==
    IF IsNone(s.shuffled)
    THEN Handled(s, ad, shw, [kind |-> "save", playlist |-> p,
                              status |-> 500, exc |-> KeyErrorShuffled])
    ELSE IF \E k \in 1..Len(Val(s.shuffled)) :
                Val(s.shuffled)[k] >= Len(track_names)
    THEN Handled(s, ad, shw, [kind |-> "save", playlist |-> p,
                              status |-> 500, exc |-> IndexError])
    ELSE Handled(s,
                 [ad EXCEPT ![Len(ad)] =
                     add_each(get_tracks_for_add(
                         all_tracks_of(track_names, Val(s.shuffled))))],
                 shw, [kind |-> "save", playlist |-> p, status |-> 302,
                       exc |-> NoExc])

\* A logged-in browser session (the cookie holds the token, the user id and
\* the playlist names) and the user's two playlists of up to MaxN tracks.
InitApp ==
    /\ session = Some([name |-> None, shuffled |-> None])
    /\ \E np, nq \in 0..MaxN :
         \E zp \in 0..np, zq \in 0..nq :
            library = Some([p \in PlaylistIds |->
                              IF p = "P" THEN Playlist(np, zp)
                                         ELSE Playlist(nq, zq)])
    /\ added = << >>
    /\ shown = Some([p \in PlaylistIds |-> None])
    /\ response = None
    /\ NoSession
    /\ NoCallback
    /\ NoChunks
    /\ NoClient

\* The request was handled as h tells.
Respond(h) ==
    /\ session' = Some(h.session)
    /\ added' = h.added
    /\ shown' = Some(h.shown)
    /\ response' = Some(h.response)
    /\ UNCHANGED <<library, vars, callbackVars, chunkVars, clientVars>>

\* What smart_shuffle can end with for the tracks of playlist p.
Shuffles(p) ==
    {[exc |-> r.exc, ret |-> r.ret] :
        r \in {smart_shuffle(track_names_of(Val(library)[p]), E, A) :
                 E \in EmbeddingsFor[Len(Val(library)[p])],
                 A \in AssignmentsFor[Len(Val(library)[p])]}}

\* GET /playlist/p, or a POST of a form that is not valid.
View ==
    /\ ~IsNone(session)
    /\ \E p \in PlaylistIds, saved \in BOOLEAN :
          \E sh \in Shuffles(p) :
             Respond(view_playlist_show(Val(session), added, Val(shown), p,
                                        track_names_of(Val(library)[p]),
                                        sh, saved))

\* POST /playlist/p with "Shuffle" in the form.
Reshuffle ==
    /\ ~IsNone(session)
    /\ \E p \in PlaylistIds :
          Respond(view_playlist_shuffle(Val(session), added, Val(shown), p))

\* POST /playlist/p with a valid form: a save.
Save ==
    /\ Len(added) < MaxSaves
    /\ \E p \in PlaylistIds :
          Respond(view_playlist_save(Val(session), Append(added, << >>),
                                     Val(shown), p,
                                     track_names_of(Val(library)[p])))

NextApp ==
    \/ View
    \/ Reshuffle
    \/ Save

SpecApp == InitApp /\ [][NextApp]_<<vars, others>>

\* The ids of the tracks of playlist p that have one, in playlist order.
IdsOf(p) ==
    SelectSeq([i \in 1..Len(Val(library)[p]) |-> Val(library)[p][i].id],
              LAMBDA id : ~IsNone(id))

\* C14: once a save for playlist P has been handled, every index in
\* session["shuffled"] is an index into P's fetched track list, and the new
\* playlist holds exactly the ids of P's tracks that have one, each once, in
\* the shuffled order last shown for P.
C14_SaveAddsShownOrder ==
    (~IsNone(response) /\ Val(response).kind = "save") =>
        LET P == Val(response).playlist
            new == added[Len(added)]
        IN  /\ ~IsNone(Val(session).shuffled)
            /\ \A k \in 1..Len(Val(Val(session).shuffled)) :
                  Val(Val(session).shuffled)[k] \in
                      0..(Len(Val(library)[P]) - 1)
            /\ Len(new) = Len(IdsOf(P))
            /\ \A i \in 1..Len(IdsOf(P)) :
                  \E k \in 1..Len(new) : new[k] = Val(IdsOf(P)[i])
            /\ ~IsNone(Val(shown)[P])
            /\ new = add_each(<<all_tracks_of(track_names_of(Val(library)[P]),
                                              Val(Val(shown)[P]))>>)

====
